---- MODULE Spec2Model ----
(***************************************************************************)
(* kinder: the cluster topology registry (status.Cluster), the node        *)
(* selector resolution, the cluster settings store and the kubeadm join    *)
(* workflow (actions.KubeadmJoin).                                         *)
(*                                                                         *)
(* A Go string is a sequence of byte codes, so that ordering, case folding *)
(* and splitting are computed and not assumed.  A NodeList is a sequence   *)
(* of node ids; a *Node that is nil is the id Nil.                         *)
(***************************************************************************)
EXTENDS Integers, Sequences, FiniteSets, TLC

(***************************************************************************)
(* Bounds of the model.                                                    *)
(***************************************************************************)
\* the largest number of containers docker lists for the cluster
MaxNodes == 5

\* F applied to the value of v, with v evaluated once
With(v, F(_)) == CHOOSE r \in {F(x) : x \in {v}} : TRUE

(***************************************************************************)
(* Strings.                                                                *)
(***************************************************************************)
Ascii ==
  [ch \in {"@", "*", "-", ":", "/", "1", "2", "3", "A", "C", "E", "L", "P", "W",
           "a", "b", "c", "d", "e", "k", "l", "n", "p", "t", "w", "x"} |->
     CASE ch = "@" -> 64 [] ch = "*" -> 42 [] ch = "-" -> 45 [] ch = ":" -> 58
       [] ch = "/" -> 47 [] ch = "1" -> 49 [] ch = "2" -> 50 [] ch = "3" -> 51
       [] ch = "A" -> 65 [] ch = "C" -> 67 [] ch = "E" -> 69 [] ch = "L" -> 76
       [] ch = "P" -> 80 [] ch = "W" -> 87
       [] ch = "a" -> 97 [] ch = "b" -> 98 [] ch = "c" -> 99 [] ch = "d" -> 100
       [] ch = "e" -> 101 [] ch = "k" -> 107 [] ch = "l" -> 108 [] ch = "n" -> 110
       [] ch = "p" -> 112 [] ch = "t" -> 116 [] ch = "w" -> 119 [] ch = "x" -> 120]

\* the Go string literal spelled by a tuple of characters
Str(chars) == [i \in 1..Len(chars) |-> Ascii[chars[i]]]

\* Go's < on strings: bytewise lexicographic
RECURSIVE StrLess(_, _)
StrLess(a, b) ==
  IF b = <<>> THEN FALSE
  ELSE IF a = <<>> THEN TRUE
  ELSE IF Head(a) # Head(b) THEN Head(a) < Head(b)
  ELSE StrLess(Tail(a), Tail(b))

\* a ToLower that leaves the letters as they are
ToLowerNone(s) == s

\* strings.ToLower, on ASCII
ToLower(s) == [i \in 1..Len(s) |-> IF s[i] >= 65 /\ s[i] <= 90 THEN s[i] + 32 ELSE s[i]]

\* strings.EqualFold, on ASCII
EqualFold(a, b) == ToLower(a) = ToLower(b)

\* strings.HasPrefix
HasPrefix(s, prefix) ==
  /\ Len(s) >= Len(prefix)
  /\ SubSeq(s, 1, Len(prefix)) = prefix

\* a split at the first separator only
SplitFirst(s, sep) ==
  IF \A i \in 1..Len(s) : s[i] # sep THEN <<s>>
  ELSE With(CHOOSE j \in 1..Len(s) : s[j] = sep /\ \A h \in 1..(j - 1) : s[h] # sep,
            LAMBDA i : <<SubSeq(s, 1, i - 1), SubSeq(s, i + 1, Len(s))>>)

\* strings.Split on a one byte separator
RECURSIVE Split(_, _)
Split(s, sep) ==
  IF \A i \in 1..Len(s) : s[i] # sep THEN <<s>>
  ELSE With(CHOOSE j \in 1..Len(s) : s[j] = sep /\ \A h \in 1..(j - 1) : s[h] # sep,
            LAMBDA i : <<SubSeq(s, 1, i - 1)>> \o
                       With(SubSeq(s, i + 1, Len(s)), LAMBDA rest : Split(rest, sep)))

(***************************************************************************)
(* Nodes: the containers docker may hold for the cluster.                  *)
(***************************************************************************)
Nil == "nil"

ControlPlaneNodeRoleValue == "control-plane"
WorkerNodeRoleValue == "worker"
ExternalEtcdNodeRoleValue == "external-etcd"
ExternalLoadBalancerNodeRoleValue == "external-load-balancer"

ClusterName == Str(<<"k">>)

\* every container that may carry the cluster's label: its name and the role
\* its label reports
Pool ==
  [cp1   |-> [name |-> Str(<<"k", "-", "c", "p", "1">>), role |-> ControlPlaneNodeRoleValue],
   cp2   |-> [name |-> Str(<<"k", "-", "c", "p", "2">>), role |-> ControlPlaneNodeRoleValue],
   cp3   |-> [name |-> Str(<<"k", "-", "c", "p", "3">>), role |-> ControlPlaneNodeRoleValue],
   w1    |-> [name |-> Str(<<"k", "-", "w", "1">>), role |-> WorkerNodeRoleValue],
   w2    |-> [name |-> Str(<<"k", "-", "w", "2">>), role |-> WorkerNodeRoleValue],
   lb    |-> [name |-> Str(<<"k", "-", "l", "b">>), role |-> ExternalLoadBalancerNodeRoleValue],
   lb2   |-> [name |-> Str(<<"k", "-", "l", "b", "2">>), role |-> ExternalLoadBalancerNodeRoleValue],
   etcd  |-> [name |-> Str(<<"k", "-", "e", "t", "c", "d">>), role |-> ExternalEtcdNodeRoleValue],
   etcd2 |-> [name |-> Str(<<"k", "-", "e", "t", "c", "d", "2">>), role |-> ExternalEtcdNodeRoleValue]]

AllContainers == DOMAIN Pool

\* the containers the join workflow and the settings store are run on
K8sContainers == {"cp1", "cp2", "cp3", "w1", "w2", "lb"}

NodeName(n) == Pool[n].name

IsControlPlane(n) == Pool[n].role = ControlPlaneNodeRoleValue
IsWorker(n) == Pool[n].role = WorkerNodeRoleValue
IsExternalEtcd(n) == Pool[n].role = ExternalEtcdNodeRoleValue
IsExternalLoadBalancer(n) == Pool[n].role = ExternalLoadBalancerNodeRoleValue

(***************************************************************************)
(* NodeList                                                                *)
(***************************************************************************)
Range(s) == {s[i] : i \in DOMAIN s}

\* the orders in which docker may list a set of containers
Orders(S) == {s \in [1..Cardinality(S) -> S] : Range(s) = S}

RECURSIVE Insert(_, _)
Insert(n, sorted) ==
  IF sorted = <<>> THEN <<n>>
  ELSE IF StrLess(NodeName(n), NodeName(Head(sorted))) THEN <<n>> \o sorted
  ELSE <<Head(sorted)>> \o Insert(n, Tail(sorted))

\* NodeList.Sort: by node name
RECURSIVE Sort(_)
Sort(l) ==
  IF l = <<>> THEN <<>>
  ELSE With(Sort(Tail(l)), LAMBDA sorted : Insert(Head(l), sorted))

\* toNodeList without its nil test
toNodeListOfNil(node) == <<node>>

toNodeList(node) == IF node # Nil THEN <<node>> ELSE <<>>

(***************************************************************************)
(* Cluster                                                                 *)
(***************************************************************************)
EmptyCluster ==
  [name |-> ClusterName, allNodes |-> <<>>, k8sNodes |-> <<>>, controlPlanes |-> <<>>,
   workers |-> <<>>, externalEtcd |-> Nil, externalLoadBalancer |-> Nil]

\* an add that registers a second etcd or load balancer node over the first
addReplacing(c, node) ==
  LET c1 == [c EXCEPT !.allNodes = Append(@, node)]
      c2 == IF IsControlPlane(node) \/ IsWorker(node)
            THEN [c1 EXCEPT !.k8sNodes = Append(@, node)] ELSE c1
      c3 == IF IsControlPlane(node)
            THEN [c2 EXCEPT !.controlPlanes = Append(@, node)] ELSE c2
      c4 == IF IsWorker(node)
            THEN [c3 EXCEPT !.workers = Append(@, node)] ELSE c3
      c5 == IF IsExternalEtcd(node) THEN [c4 EXCEPT !.externalEtcd = node] ELSE c4
  IN [c |-> IF IsExternalLoadBalancer(node)
              THEN [c5 EXCEPT !.externalLoadBalancer = node] ELSE c5,
      err |-> ""]

\* Cluster.add: the cluster with the node added, and the error
add(c, node) ==
  LET c1 == [c EXCEPT !.allNodes = Append(@, node)]
      c2 == IF IsControlPlane(node) \/ IsWorker(node)
            THEN [c1 EXCEPT !.k8sNodes = Append(@, node)] ELSE c1
      c3 == IF IsControlPlane(node)
            THEN [c2 EXCEPT !.controlPlanes = Append(@, node)] ELSE c2
      c4 == IF IsWorker(node)
            THEN [c3 EXCEPT !.workers = Append(@, node)] ELSE c3
  IN IF IsExternalEtcd(node) /\ c4.externalEtcd # Nil
       THEN [c |-> c4, err |-> "MoreThanOneExternalEtcd"]
     ELSE LET c5 == IF IsExternalEtcd(node) THEN [c4 EXCEPT !.externalEtcd = node] ELSE c4
          IN IF IsExternalLoadBalancer(node) /\ c5.externalLoadBalancer # Nil
               THEN [c |-> c5, err |-> "MoreThanOneExternalLoadBalancer"]
             ELSE [c |-> IF IsExternalLoadBalancer(node)
                           THEN [c5 EXCEPT !.externalLoadBalancer = node] ELSE c5,
                   err |-> ""]

\* the loop of FromDocker over the listed containers
RECURSIVE addAll(_, _)
addAll(c, nodes) ==
  IF nodes = <<>> THEN [c |-> c, err |-> ""]
  ELSE With(add(c, Head(nodes)),
            LAMBDA r : IF r.err # "" THEN r ELSE addAll(r.c, Tail(nodes)))

\* the sorts that end FromDocker, the one of the control-planes forgotten
sortListsButControlPlanes(c) ==
  [c EXCEPT !.allNodes = Sort(@), !.k8sNodes = Sort(@), !.workers = Sort(@)]

\* the sorts that end FromDocker
sortLists(c) ==
  [c EXCEPT !.allNodes = Sort(@), !.k8sNodes = Sort(@),
            !.controlPlanes = Sort(@), !.workers = Sort(@)]

\* FromDocker: <<cluster>> and no error, or no cluster and the error
FromDocker(nodes) ==
  With(addAll(EmptyCluster, nodes),
       LAMBDA r : IF r.err # "" THEN [c |-> <<>>, err |-> r.err]
                  ELSE [c |-> <<sortLists(r.c)>>, err |-> ""])

AllNodes(c) == c.allNodes
K8sNodes(c) == c.k8sNodes
ControlPlanes(c) == c.controlPlanes
Workers(c) == c.workers
ExternalEtcd(c) == c.externalEtcd
ExternalLoadBalancer(c) == c.externalLoadBalancer

BootstrapControlPlane(c) ==
  IF Len(c.controlPlanes) = 0 THEN Nil ELSE c.controlPlanes[1]

\* SecondaryControlPlanes that keeps the first control-plane
SecondaryControlPlanesAll(c) == c.controlPlanes

SecondaryControlPlanes(c) ==
  IF Len(c.controlPlanes) <= 1 THEN <<>> ELSE Tail(c.controlPlanes)

\* Validate asking for a load balancer from the first control-plane on
ValidateFromOne(c) ==
  IF Len(c.controlPlanes) = 0 THEN "NoControlPlane"
  ELSE IF Len(c.controlPlanes) >= 1 /\ c.externalLoadBalancer = Nil THEN "NoLoadBalancer"
  ELSE ""

\* Cluster.Validate: the error, "" for nil
Validate(c) ==
  IF BootstrapControlPlane(c) = Nil THEN "NoControlPlane"
  ELSE IF Len(ControlPlanes(c)) > 1 /\ ExternalLoadBalancer(c) = Nil THEN "NoLoadBalancer"
  ELSE ""

(***************************************************************************)
(* Selectors                                                               *)
(***************************************************************************)
SelAll == Str(<<"@", "a", "l", "l">>)
SelCPs == Str(<<"@", "c", "p", "*">>)
SelCP1 == Str(<<"@", "c", "p", "1">>)
SelCPN == Str(<<"@", "c", "p", "n">>)
SelWorkers == Str(<<"@", "w", "*">>)
SelLB == Str(<<"@", "l", "b">>)
SelEtcd == Str(<<"@", "e", "t", "c", "d">>)

ValidSelectors == {SelAll, SelCPs, SelCP1, SelCPN, SelWorkers, SelLB, SelEtcd}

\* the first node of the list whose name folds to nodeName
RECURSIVE firstEqualFold(_, _)
firstEqualFold(nodeName, l) ==
  IF l = <<>> THEN <<>>
  ELSE IF EqualFold(nodeName, NodeName(Head(l))) THEN toNodeList(Head(l))
  ELSE firstEqualFold(nodeName, Tail(l))

\* Cluster.SelectNodes
SelectNodes(c, nodeSelector) ==
  IF HasPrefix(nodeSelector, Str(<<"@">>))
  THEN LET s == ToLower(nodeSelector)
       IN CASE s = SelAll -> [nodes |-> K8sNodes(c), err |-> ""]
            [] s = SelCPs -> [nodes |-> ControlPlanes(c), err |-> ""]
            [] s = SelCP1 -> [nodes |-> toNodeList(BootstrapControlPlane(c)), err |-> ""]
            [] s = SelCPN -> [nodes |-> SecondaryControlPlanes(c), err |-> ""]
            [] s = SelWorkers -> [nodes |-> Workers(c), err |-> ""]
            [] s = SelLB -> [nodes |-> toNodeList(ExternalLoadBalancer(c)), err |-> ""]
            [] s = SelEtcd -> [nodes |-> toNodeList(ExternalEtcd(c)), err |-> ""]
            [] OTHER -> [nodes |-> <<>>, err |-> "InvalidNodeSelector"]
  ELSE [nodes |-> firstEqualFold(c.name \o Str(<<"-">>) \o nodeSelector, K8sNodes(c)),
        err |-> ""]

\* Cluster.ResolveNodesPath
ResolveNodesPath(c, nodesPath) ==
  With(Split(nodesPath, Ascii[":"]),
       LAMBDA t :
         CASE Len(t) = 1 -> [nodes |-> <<>>, path |-> t[1], err |-> ""]
           [] Len(t) = 2 ->
                With(SelectNodes(c, t[1]),
                     LAMBDA r : IF r.err # "" THEN [nodes |-> <<>>, path |-> <<>>, err |-> r.err]
                                ELSE [nodes |-> r.nodes, path |-> t[2], err |-> ""])
           [] OTHER -> [nodes |-> <<>>, path |-> <<>>, err |-> "InvalidNodesPath"])

\* the selectors the commands are called with
Selectors ==
  ValidSelectors \cup
  { Str(<<"@", "C", "P", "1">>), Str(<<"@", "E", "t", "c", "d">>),
    Str(<<"@", "A", "L", "L">>), Str(<<"@", "L", "b">>),
    Str(<<"@">>), Str(<<"@", "c", "p", "2">>), Str(<<"@", "x">>),
    Str(<<"@", "c", "p">>), Str(<<"@", "e", "t", "c", "d", "2">>),
    Str(<<"c", "p", "1">>), Str(<<"C", "P", "2">>), Str(<<"w", "1">>),
    Str(<<"l", "b">>), Str(<<"x">>), <<>> }

\* the topology aware paths the commands are called with
NodesPaths ==
  { Str(<<"/", "a">>), <<>>, Str(<<":">>), Str(<<"@", "c", "p", "1", ":", "/", "a">>),
    Str(<<"@", "e", "t", "c", "d", ":", "/", "a">>), Str(<<"@", "x", ":", "/", "a">>),
    Str(<<"c", "p", "2", ":">>), Str(<<"@", "c", "p", "*", ":", "a", ":", "b">>),
    Str(<<":", ":">>) }

(***************************************************************************)
(* ClusterSettings, and the file a node keeps them in                      *)
(***************************************************************************)
IPv4Family == "ipv4"
IPv6Family == "ipv6"

\* the values of ClusterSettings
SettingsValues == {[IPFamily |-> f] : f \in {"", IPv4Family, IPv6Family}}

NoFile == [exists |-> FALSE, lines |-> <<>>]

\* the encoding of ClusterSettings: `json:"ipFamily,omitempty"`
Marshal(settings) ==
  IF settings.IPFamily = "" THEN <<>>
  ELSE <<[key |-> "ipFamily", value |-> settings.IPFamily]>>

\* the decoding of the file's lines into a fresh ClusterSettings
Unmarshal(lines) ==
  IF \E i \in 1..Len(lines) : lines[i].key = "ipFamily"
  THEN [IPFamily |-> lines[CHOOSE i \in 1..Len(lines) : lines[i].key = "ipFamily"].value]
  ELSE [IPFamily |-> ""]

\* Node.WriteClusterSettings: the node's file once written
WriteClusterSettings(settings) ==
  [exists |-> TRUE, lines |-> IF settings = <<>> THEN <<>> ELSE Marshal(settings[1])]

\* Node.ReadClusterSettings: the settings read from the node's file
ReadClusterSettings(file) == <<Unmarshal(file.lines)>>

\* a read that fails and returns an empty ClusterSettings with its error
ReadClusterSettingsFailedEmpty == <<[IPFamily |-> ""]>>

\* Node.ReadClusterSettings when it fails: what it returns with its error, nil
ReadClusterSettingsFailed == <<>>

\* the loop of WriteSettings starting at the second node
WriteSettingsNodesButFirst(c) == IF c.k8sNodes = <<>> THEN <<>> ELSE Tail(c.k8sNodes)

\* the loop of WriteSettings ranging over all the nodes of the cluster
WriteSettingsAllNodes(c) == c.allNodes

\* the nodes Cluster.WriteSettings writes, in the order it writes them
WriteSettingsNodes(c) == K8sNodes(c)

\* ReadSettings reading the last of the Kubernetes nodes
ReadSettingsLastNode(c) == IF c.k8sNodes = <<>> THEN Nil ELSE c.k8sNodes[Len(c.k8sNodes)]

\* the node Cluster.ReadSettings reads
ReadSettingsNode(c) == BootstrapControlPlane(c)

(***************************************************************************)
(* The kubeadm join workflow: what it runs on a node                       *)
(***************************************************************************)
\* constants.V1_17 and constants.V1_19, as minor versions
V1_17 == 17
V1_19 == 19

\* the kubeadm versions a node may report
KubeadmVersions == {V1_17 - 1, V1_17, V1_19 - 1, V1_19}

\* the arguments of KubeadmJoin: a directory is given or "", wait is
\* a duration or zero
JoinOptions ==
  [usePhases : BOOLEAN, automaticCopyCerts : BOOLEAN, kustomizeDir : BOOLEAN,
   patchesDir : BOOLEAN, wait : BOOLEAN]

\* EligibleForActions that holds no node back
EligibleForActionsAll(l, skipped) == l

\* NodeList.EligibleForActions: the nodes of the list that are not skipped
EligibleForActions(l, skipped) == SelectSeq(l, LAMBDA n : n \notin skipped)

\* the flags with the one of the patches directory forgotten
PatchFlagsKustomizeOnly(o) == IF o.kustomizeDir THEN {"-k"} ELSE {}

\* the flags that hand the staged directories to kubeadm
PatchFlags(o) ==
  (IF o.kustomizeDir THEN {"-k"} ELSE {}) \cup
  (IF o.patchesDir THEN {"--experimental-patches"} ELSE {})

\* kubeadmJoinControlPlane: the kubeadm commands it runs
kubeadmJoinControlPlane(o) ==
  <<[cmd |-> "join", flags |-> {"--ignore-preflight-errors"} \cup PatchFlags(o)]>>

\* the phases of a control-plane join with kubelet-start before control-plane-prepare
kubeadmJoinControlPlaneKubeletFirst(o) ==
  <<[cmd |-> "join phase preflight", flags |-> {"--ignore-preflight-errors"}],
    [cmd |-> "join phase kubelet-start", flags |-> {}],
    [cmd |-> "join phase control-plane-prepare all", flags |-> PatchFlags(o)],
    [cmd |-> "join phase control-plane-join all", flags |-> PatchFlags(o)]>>

\* kubeadmJoinControlPlaneWithPhases: the kubeadm commands it runs, in order
kubeadmJoinControlPlaneWithPhases(o) ==
  <<[cmd |-> "join phase preflight", flags |-> {"--ignore-preflight-errors"}],
    [cmd |-> "join phase control-plane-prepare all", flags |-> PatchFlags(o)],
    [cmd |-> "join phase kubelet-start", flags |-> {}],
    [cmd |-> "join phase control-plane-join all", flags |-> PatchFlags(o)]>>

\* a worker join that runs kubeadm join twice
kubeadmJoinWorkerTwice ==
  <<[cmd |-> "join", flags |-> {"--ignore-preflight-errors"}],
    [cmd |-> "join", flags |-> {"--ignore-preflight-errors"}]>>

\* kubeadmJoinWorker: the kubeadm command it runs
kubeadmJoinWorker ==
  <<[cmd |-> "join", flags |-> {"--ignore-preflight-errors"}]>>

\* the phases of a worker join with the control-plane phases left in
kubeadmJoinWorkerWithControlPlanePhases ==
  <<[cmd |-> "join phase preflight", flags |-> {"--ignore-preflight-errors"}],
    [cmd |-> "join phase control-plane-prepare all", flags |-> {}],
    [cmd |-> "join phase kubelet-start", flags |-> {}],
    [cmd |-> "join phase control-plane-join all", flags |-> {}]>>

\* kubeadmJoinWorkerWithPhases: the kubeadm commands it runs, in order
kubeadmJoinWorkerWithPhases ==
  <<[cmd |-> "join phase preflight", flags |-> {"--ignore-preflight-errors"}],
    [cmd |-> "join phase kubelet-start", flags |-> {}]>>

\* the join of joinControlPlanes: phased or not
ControlPlaneJoinCommands(o) ==
  IF o.usePhases THEN kubeadmJoinControlPlaneWithPhases(o) ELSE kubeadmJoinControlPlane(o)

\* the join of joinWorkers: phased or not
WorkerJoinCommands(o) ==
  IF o.usePhases THEN kubeadmJoinWorkerWithPhases ELSE kubeadmJoinWorker

\* the secondary control-planes joined from the last name to the first
ControlPlanesToJoinLastFirst(c, skipped) ==
  [i \in 1..Len(EligibleForActions(SecondaryControlPlanes(c), skipped)) |->
     EligibleForActions(SecondaryControlPlanes(c), skipped)
       [Len(EligibleForActions(SecondaryControlPlanes(c), skipped)) + 1 - i]]

\* the nodes joinControlPlanes joins, in order
ControlPlanesToJoin(c, skipped) == EligibleForActions(SecondaryControlPlanes(c), skipped)

\* the workers joined but for the first of them
WorkersToJoinButFirst(c, skipped) ==
  IF EligibleForActions(Workers(c), skipped) = <<>> THEN <<>>
  ELSE Tail(EligibleForActions(Workers(c), skipped))

\* the nodes joinWorkers joins, in order
WorkersToJoin(c, skipped) == EligibleForActions(Workers(c), skipped)

\* the version test before the kustomize directory is copied, never failing
KustomizeVersionNeverTooOld(v) == FALSE

\* the version test before the kustomize directory is copied
KustomizeVersionTooOld(v) == v < V1_17

\* the version test before the patches directory is copied
PatchesVersionTooOld(v) == v < V1_19

\* the certificates copied whatever automaticCopyCerts is
CopyCertificatesAlways(o) == TRUE

\* if not automatic copy certs, simulate manual copy
CopyCertificates(o) == ~o.automaticCopyCerts

\* the load balancer handed the bootstrap control-plane and cp2 alone
BootstrapAndControlPlane(cps, cp2) == <<cps[1], cp2>>

\* the load balancer handed the control-planes without the one that has joined
KeepControlPlanes(cps, cp2) == cps

\* the control-plane that has joined put before the others
PrependControlPlane(cps, cp2) == <<cp2>> \o cps

\* the control-planes handed to the load balancer once cp2 has joined
AppendControlPlane(cps, cp2) == Append(cps, cp2)

\* a load balancer update that adds the nodes to the configuration it finds
LoadBalancerAdding(config, nodes) ==
  config \o [i \in 1..Len(nodes) |-> [server |-> NodeName(nodes[i])]]

\* actions.LoadBalancer: the configuration regenerated from the nodes handed
\* to it, whatever the configuration was
LoadBalancer(config, nodes) == [i \in 1..Len(nodes) |-> [server |-> NodeName(nodes[i])]]

(***************************************************************************)
(* State                                                                   *)
(***************************************************************************)
\* the largest number of settings commands run on one Cluster
MaxSettingsCalls == 2

VARIABLES
  containers,    \* the containers docker holds for the cluster
  listed,        \* the order listNodes returned them in, until a command runs
  cluster,       \* <<the Cluster>>, or <<>> for none
  pc,            \* where the invocation is
  call,          \* the command invoked on the cluster, with its argument
  out,           \* what the command returned
  Settings,      \* Cluster.Settings: <<the ClusterSettings>>, or <<>> for nil
  nodeSettings,  \* the settings file of each container
  todo,          \* the nodes WriteSettings has still to write
  history,       \* the settings commands that returned, oldest first
  opts,          \* the arguments of KubeadmJoin
  skip,          \* the nodes found not eligible for actions
  queue,         \* the nodes the running loop has still to join, the current one first
  version,       \* the kubeadm version read from the current node, 0 before it is read
  phase,         \* the next kubeadm command of the current node's join
  cpX,           \* the control-planes handed to the load balancer
  calls,         \* the calls made on the nodes, oldest first
  lbBackends,    \* the nodes of the last load balancer update that succeeded
  lbConfig       \* the load balancer's configuration

topologyVars == <<containers, listed, cluster>>
settingsVars == <<Settings, nodeSettings, todo, history>>
joinVars == <<opts, skip, queue, version, phase, cpX, calls, lbBackends, lbConfig>>
vars == <<containers, listed, cluster, pc, call, out, Settings, nodeSettings, todo, history,
          opts, skip, queue, version, phase, cpX, calls, lbBackends, lbConfig>>

NoCall == [op |-> "", arg |-> <<>>]
NoOpts ==
  [usePhases |-> FALSE, automaticCopyCerts |-> FALSE, kustomizeDir |-> FALSE,
   patchesDir |-> FALSE, wait |-> FALSE]
NoOut == [nodes |-> <<>>, path |-> <<>>, err |-> "", node |-> Nil]

InitOn(pool) ==
  /\ containers \in {S \in SUBSET pool : Cardinality(S) <= MaxNodes}
  /\ listed = <<>>
  /\ cluster = <<>>
  /\ pc = "start"
  /\ call = NoCall
  /\ out = NoOut
  /\ Settings = <<>>
  /\ nodeSettings = [n \in AllContainers |-> NoFile]
  /\ todo = <<>>
  /\ history = <<>>
  /\ opts = NoOpts
  /\ skip = {}
  /\ queue = <<>>
  /\ version = 0
  /\ phase = 0
  /\ cpX = <<>>
  /\ calls = <<>>
  /\ lbBackends = <<>>
  /\ lbConfig = <<>>

Init == InitOn(AllContainers)

InitK8s == InitOn(K8sContainers)

\* status.FromDocker(name): docker lists the containers in any order
Discover ==
  /\ pc = "start"
  /\ \E nodes \in Orders(containers) :
       \E r \in {FromDocker(nodes)} :
          /\ listed' = nodes
          /\ cluster' = r.c
          /\ out' = [NoOut EXCEPT !.err = r.err]
          /\ pc' = IF r.err = "" THEN "discovered" ELSE "failed"
  /\ call' = [op |-> "FromDocker", arg |-> <<>>]
  /\ UNCHANGED <<containers, settingsVars, joinVars>>

\* c.Validate()
ValidateCall ==
  /\ pc = "discovered"
  /\ call' = [op |-> "Validate", arg |-> <<>>]
  /\ out' = [NoOut EXCEPT !.err = Validate(cluster[1])]
  /\ pc' = "returned"
  /\ listed' = <<>>
  /\ UNCHANGED <<containers, cluster, settingsVars, joinVars>>

\* c.SelectNodes(nodeSelector)
SelectNodesCall ==
  /\ pc = "discovered"
  /\ \E nodeSelector \in Selectors :
       \E r \in {SelectNodes(cluster[1], nodeSelector)} :
          /\ call' = [op |-> "SelectNodes", arg |-> nodeSelector]
          /\ out' = [NoOut EXCEPT !.nodes = r.nodes, !.err = r.err]
  /\ pc' = "returned"
  /\ listed' = <<>>
  /\ UNCHANGED <<containers, cluster, settingsVars, joinVars>>

\* c.ResolveNodesPath(nodesPath)
ResolveNodesPathCall ==
  /\ pc = "discovered"
  /\ \E nodesPath \in NodesPaths :
       \E r \in {ResolveNodesPath(cluster[1], nodesPath)} :
          /\ call' = [op |-> "ResolveNodesPath", arg |-> nodesPath]
          /\ out' = [NoOut EXCEPT !.nodes = r.nodes, !.path = r.path, !.err = r.err]
  /\ pc' = "returned"
  /\ listed' = <<>>
  /\ UNCHANGED <<containers, cluster, settingsVars, joinVars>>

NextTopology ==
  \/ Discover
  \/ ValidateCall
  \/ SelectNodesCall
  \/ ResolveNodesPathCall

SpecTopology == Init /\ [][NextTopology]_vars

(***************************************************************************)
(* The settings store                                                      *)
(***************************************************************************)
Returned(op, arg, err, node, settings) ==
  [op |-> op, arg |-> arg, err |-> err, node |-> node, settings |-> settings]

\* the caller sets c.Settings and calls c.WriteSettings()
WriteSettingsBegin ==
  /\ pc \in {"discovered", "returned"}
  /\ Len(history) < MaxSettingsCalls
  /\ \E s \in SettingsValues :
       /\ Settings' = <<s>>
       /\ call' = [op |-> "WriteSettings", arg |-> <<s>>]
  /\ todo' = WriteSettingsNodes(cluster[1])
  /\ pc' = "writeSettings"
  /\ out' = NoOut
  /\ listed' = <<>>
  /\ UNCHANGED <<containers, cluster, nodeSettings, history, joinVars>>

\* one turn of the loop of WriteSettings: n.WriteClusterSettings(c.Settings)
\* writes the node's file, or fails and WriteSettings returns the error
WriteSettingsNode ==
  /\ pc = "writeSettings"
  /\ todo # <<>>
  /\ \/ /\ nodeSettings' = [nodeSettings EXCEPT ![Head(todo)] = WriteClusterSettings(Settings)]
        /\ todo' = Tail(todo)
        /\ UNCHANGED <<pc, out, history>>
     \/ /\ pc' = "returned"
        /\ out' = [NoOut EXCEPT !.err = "WriteSettingsFailed", !.node = Head(todo)]
        /\ history' = Append(history,
             Returned("WriteSettings", call.arg, "WriteSettingsFailed", Head(todo), Settings))
        /\ UNCHANGED <<nodeSettings, todo>>
  /\ UNCHANGED <<topologyVars, call, Settings, joinVars>>

\* the loop of WriteSettings is over: return nil
WriteSettingsReturn ==
  /\ pc = "writeSettings"
  /\ todo = <<>>
  /\ pc' = "returned"
  /\ out' = NoOut
  /\ history' = Append(history, Returned("WriteSettings", call.arg, "", Nil, Settings))
  /\ UNCHANGED <<topologyVars, call, Settings, nodeSettings, todo, joinVars>>

\* c.ReadSettings(): c.Settings takes what ReadClusterSettings returns, the
\* settings or, with an error, nil; with no control-plane the call is made
\* on a nil *Node
ReadSettingsCall ==
  /\ pc \in {"discovered", "returned"}
  /\ Len(history) < MaxSettingsCalls
  /\ call' = [op |-> "ReadSettings", arg |-> <<>>]
  /\ listed' = <<>>
  /\ \E node \in {ReadSettingsNode(cluster[1])} :
       IF node = Nil
       THEN /\ pc' = "panicked"
            /\ out' = [NoOut EXCEPT !.err = "NilPointerDereference"]
            /\ UNCHANGED <<Settings, history>>
       ELSE \/ /\ nodeSettings[node].exists
               /\ Settings' = ReadClusterSettings(nodeSettings[node])
               /\ pc' = "returned"
               /\ out' = NoOut
               /\ history' = Append(history,
                    Returned("ReadSettings", <<>>, "", Nil, Settings'))
            \/ /\ Settings' = ReadClusterSettingsFailed
               /\ pc' = "returned"
               /\ out' = [NoOut EXCEPT !.err = "ReadSettingsFailed", !.node = node]
               /\ history' = Append(history,
                    Returned("ReadSettings", <<>>, "ReadSettingsFailed", node, Settings'))
  /\ UNCHANGED <<containers, cluster, nodeSettings, todo, joinVars>>

NextSettings ==
  \/ Discover
  \/ WriteSettingsBegin
  \/ WriteSettingsNode
  \/ WriteSettingsReturn
  \/ ReadSettingsCall

SpecSettings == InitK8s /\ [][NextSettings]_vars

(***************************************************************************)
(* actions.KubeadmJoin                                                     *)
(***************************************************************************)
Entry(node, op, cmd, backends, ok) ==
  [node |-> node, op |-> op, cmd |-> cmd, backends |-> backends, ok |-> ok]

NoCmd == [cmd |-> "", flags |-> {}]

\* a call on a node whose error is dropped: the workflow goes on at next
RunGoingOn(node, op, cmd, backends, mayFail, next) ==
  \E ok \in IF mayFail THEN BOOLEAN ELSE {TRUE} :
    /\ calls' = Append(calls, Entry(node, op, cmd, backends, ok))
    /\ pc' = next
    /\ out' = out

\* a call on a node, the workflow going on when the image check reports a
\* missing image
RunPastMissingImage(node, op, cmd, backends, mayFail, next) ==
  \E ok \in IF mayFail THEN BOOLEAN ELSE {TRUE} :
    /\ calls' = Append(calls, Entry(node, op, cmd, backends, ok))
    /\ IF ok \/ op = "checkImagesForVersion"
       THEN pc' = next /\ out' = out
       ELSE pc' = "returned" /\ out' = [NoOut EXCEPT !.err = op, !.node = node]

\* a call on a node that is made again when it returns an error
RunRetrying(node, op, cmd, backends, mayFail, next) ==
  \E ok \in IF mayFail THEN BOOLEAN ELSE {TRUE} :
    /\ calls' = Append(calls, Entry(node, op, cmd, backends, ok))
    /\ pc' = IF ok THEN next ELSE pc
    /\ out' = out

\* a call on a node: it returns nil and the workflow goes on at next, or it
\* returns an error and the workflow returns it
Run(node, op, cmd, backends, mayFail, next) ==
  \E ok \in IF mayFail THEN BOOLEAN ELSE {TRUE} :
    /\ calls' = Append(calls, Entry(node, op, cmd, backends, ok))
    /\ IF ok
       THEN pc' = next /\ out' = out
       ELSE pc' = "returned" /\ out' = [NoOut EXCEPT !.err = op, !.node = node]

\* KubeadmJoin is called and joinControlPlanes starts
KubeadmJoinBegin ==
  /\ pc = "discovered"
  /\ \E o \in JoinOptions :
       /\ opts' = o
       /\ call' = [op |-> "KubeadmJoin", arg |-> <<>>]
  /\ \E skipped \in SUBSET Range(SecondaryControlPlanes(cluster[1])) :
       /\ skip' = skipped
       /\ queue' = ControlPlanesToJoin(cluster[1], skipped)
  /\ cpX' = <<BootstrapControlPlane(cluster[1])>>
  /\ pc' = "cpLoop"
  /\ out' = NoOut
  /\ listed' = <<>>
  /\ UNCHANGED <<containers, cluster, settingsVars, version, phase, calls, lbBackends, lbConfig>>

\* fail fast if required to use kustomize and kubeadm less than v1.17
ControlPlaneKustomizeGate ==
  /\ pc = "cpLoop"
  /\ queue # <<>>
  /\ IF opts.kustomizeDir
     THEN \E v \in KubeadmVersions :
            /\ version' = v
            /\ IF KustomizeVersionTooOld(v)
               THEN pc' = "returned" /\ out' = [NoOut EXCEPT !.err = "KustomizeVersion"]
               ELSE pc' = "cpKustomize" /\ out' = out
     ELSE pc' = "cpKustomize" /\ UNCHANGED <<version, out>>
  /\ UNCHANGED <<topologyVars, call, settingsVars, opts, skip, queue, phase, cpX, calls,
                 lbBackends, lbConfig>>

\* if kustomize copy patches to the node
ControlPlaneCopyKustomize ==
  /\ pc = "cpKustomize"
  /\ IF opts.kustomizeDir
     THEN Run(Head(queue), "copyPatchesToNode", [NoCmd EXCEPT !.cmd = "kustomizeDir"], <<>>,
              TRUE, "cpPatches")
     ELSE pc' = "cpPatches" /\ UNCHANGED <<calls, out>>
  /\ UNCHANGED <<topologyVars, call, settingsVars, opts, skip, queue, version, phase, cpX,
                 lbBackends, lbConfig>>

\* if patchesDir is defined, check the version and copy the patches to the node
ControlPlanePatches ==
  /\ pc = "cpPatches"
  /\ IF opts.patchesDir
     THEN \E v \in IF version = 0 THEN KubeadmVersions ELSE {version} :
            IF PatchesVersionTooOld(v)
            THEN /\ pc' = "returned"
                 /\ out' = [NoOut EXCEPT !.err = "PatchesVersion"]
                 /\ version' = v
                 /\ UNCHANGED calls
            ELSE /\ Run(Head(queue), "copyPatchesToNode", [NoCmd EXCEPT !.cmd = "patchesDir"],
                        <<>>, TRUE, "cpCerts")
                 /\ version' = 0
     ELSE pc' = "cpCerts" /\ version' = 0 /\ UNCHANGED <<calls, out>>
  /\ UNCHANGED <<topologyVars, call, settingsVars, opts, skip, queue, phase, cpX,
                 lbBackends, lbConfig>>

\* if not automatic copy certs, simulate manual copy
ControlPlaneCopyCerts ==
  /\ pc = "cpCerts"
  /\ IF CopyCertificates(opts)
     THEN Run(Head(queue), "copyCertificatesToNode", NoCmd, <<>>, TRUE, "cpKubeVersion")
     ELSE pc' = "cpKubeVersion" /\ UNCHANGED <<calls, out>>
  /\ UNCHANGED <<topologyVars, call, settingsVars, opts, skip, queue, version, phase, cpX,
                 lbBackends, lbConfig>>

\* cp2.KubeVersion()
ControlPlaneKubeVersion ==
  /\ pc = "cpKubeVersion"
  /\ Run(Head(queue), "KubeVersion", NoCmd, <<>>, TRUE, "cpImages")
  /\ UNCHANGED <<topologyVars, call, settingsVars, opts, skip, queue, version, phase, cpX,
                 lbBackends, lbConfig>>

\* checks pre-loaded images available on the node
ControlPlaneCheckImages ==
  /\ pc = "cpImages"
  /\ Run(Head(queue), "checkImagesForVersion", NoCmd, <<>>, TRUE, "cpConfig")
  /\ UNCHANGED <<topologyVars, call, settingsVars, opts, skip, queue, version, phase, cpX,
                 lbBackends, lbConfig>>

\* prepares the kubeadm config on this node
ControlPlaneJoinConfig ==
  /\ pc = "cpConfig"
  /\ Run(Head(queue), "KubeadmJoinConfig", NoCmd, <<>>, TRUE, "cpJoin")
  /\ phase' = 1
  /\ UNCHANGED <<topologyVars, call, settingsVars, opts, skip, queue, version, cpX,
                 lbBackends, lbConfig>>

\* executes the kubeadm join control-plane workflow, one kubeadm command a step
ControlPlaneJoin ==
  /\ pc = "cpJoin"
  /\ Run(Head(queue), "kubeadm", ControlPlaneJoinCommands(opts)[phase], <<>>, TRUE,
         IF phase = Len(ControlPlaneJoinCommands(opts)) THEN "cpLoadBalancer" ELSE "cpJoin")
  /\ phase' = phase + 1
  /\ UNCHANGED <<topologyVars, call, settingsVars, opts, skip, queue, version, cpX,
                 lbBackends, lbConfig>>

\* updates the loadbalancer config with the new cp node
ControlPlaneLoadBalancer ==
  /\ pc = "cpLoadBalancer"
  /\ cpX' = AppendControlPlane(cpX, Head(queue))
  /\ Run(ExternalLoadBalancer(cluster[1]), "LoadBalancer", NoCmd, cpX', TRUE, "cpWait")
  /\ IF calls'[Len(calls')].ok
     THEN lbBackends' = cpX' /\ lbConfig' = LoadBalancer(lbConfig, cpX')
     ELSE UNCHANGED <<lbBackends, lbConfig>>
  /\ phase' = 0
  /\ UNCHANGED <<topologyVars, call, settingsVars, opts, skip, queue, version>>

\* waitNewControlPlaneNodeReady, and the loop goes to the next control-plane;
\* with a zero wait nothing is awaited
ControlPlaneWaitReady ==
  /\ pc = "cpWait"
  /\ Run(Head(queue), "waitNewControlPlaneNodeReady", NoCmd, <<>>, opts.wait, "cpLoop")
  /\ queue' = IF calls'[Len(calls')].ok THEN Tail(queue) ELSE queue
  /\ UNCHANGED <<topologyVars, call, settingsVars, opts, skip, version, phase, cpX,
                 lbBackends, lbConfig>>

\* joinControlPlanes has returned, nil or an error
joinControlPlanesReturned ==
  \/ pc = "cpLoop" /\ queue = <<>>
  \/ /\ pc = "returned" /\ call.op = "KubeadmJoin" /\ out.err # ""
     /\ queue # <<>> /\ IsControlPlane(Head(queue))

\* joinControlPlanes has returned nil: its loop is over
joinControlPlanesReturnedNil == pc = "cpLoop" /\ queue = <<>>

\* joinControlPlanes returns nil and joinWorkers starts
JoinWorkersBegin ==
  /\ joinControlPlanesReturnedNil
  /\ \E skipped \in SUBSET Range(Workers(cluster[1])) :
       /\ skip' = skip \cup skipped
       /\ queue' = WorkersToJoin(cluster[1], skipped)
  /\ pc' = "wLoop"
  /\ UNCHANGED <<topologyVars, call, out, settingsVars, opts, version, phase, cpX, calls,
                 lbBackends, lbConfig>>

\* w.KubeVersion()
WorkerKubeVersion ==
  /\ pc = "wLoop"
  /\ queue # <<>>
  /\ Run(Head(queue), "KubeVersion", NoCmd, <<>>, TRUE, "wImages")
  /\ UNCHANGED <<topologyVars, call, settingsVars, opts, skip, queue, version, phase, cpX,
                 lbBackends, lbConfig>>

\* checks pre-loaded images available on the node
WorkerCheckImages ==
  /\ pc = "wImages"
  /\ Run(Head(queue), "checkImagesForVersion", NoCmd, <<>>, TRUE, "wConfig")
  /\ UNCHANGED <<topologyVars, call, settingsVars, opts, skip, queue, version, phase, cpX,
                 lbBackends, lbConfig>>

\* prepares the kubeadm config on this node
WorkerJoinConfig ==
  /\ pc = "wConfig"
  /\ Run(Head(queue), "KubeadmJoinConfig", NoCmd, <<>>, TRUE, "wJoin")
  /\ phase' = 1
  /\ UNCHANGED <<topologyVars, call, settingsVars, opts, skip, queue, version, cpX,
                 lbBackends, lbConfig>>

\* executes the kubeadm join workflow, one kubeadm command a step
WorkerJoin ==
  /\ pc = "wJoin"
  /\ Run(Head(queue), "kubeadm", WorkerJoinCommands(opts)[phase], <<>>, TRUE,
         IF phase = Len(WorkerJoinCommands(opts)) THEN "wWait" ELSE "wJoin")
  /\ phase' = phase + 1
  /\ UNCHANGED <<topologyVars, call, settingsVars, opts, skip, queue, version, cpX,
                 lbBackends, lbConfig>>

\* waitNewWorkerNodeReady, and the loop goes to the next worker
WorkerWaitReady ==
  /\ pc = "wWait"
  /\ Run(Head(queue), "waitNewWorkerNodeReady", NoCmd, <<>>, opts.wait, "wLoop")
  /\ queue' = IF calls'[Len(calls')].ok THEN Tail(queue) ELSE queue
  /\ phase' = 0
  /\ UNCHANGED <<topologyVars, call, settingsVars, opts, skip, version, cpX,
                 lbBackends, lbConfig>>

\* joinWorkers returns nil, and so does KubeadmJoin
KubeadmJoinReturn ==
  /\ pc = "wLoop"
  /\ queue = <<>>
  /\ pc' = "returned"
  /\ out' = NoOut
  /\ UNCHANGED <<topologyVars, call, settingsVars, joinVars>>

NextJoin ==
  \/ Discover
  \/ KubeadmJoinBegin
  \/ ControlPlaneKustomizeGate
  \/ ControlPlaneCopyKustomize
  \/ ControlPlanePatches
  \/ ControlPlaneCopyCerts
  \/ ControlPlaneKubeVersion
  \/ ControlPlaneCheckImages
  \/ ControlPlaneJoinConfig
  \/ ControlPlaneJoin
  \/ ControlPlaneLoadBalancer
  \/ ControlPlaneWaitReady
  \/ JoinWorkersBegin
  \/ WorkerKubeVersion
  \/ WorkerCheckImages
  \/ WorkerJoinConfig
  \/ WorkerJoin
  \/ WorkerWaitReady
  \/ KubeadmJoinReturn

SpecJoin == InitK8s /\ [][NextJoin]_vars

\* the workflow is one sequential call: a step that can be taken is taken
SpecJoinFair == SpecJoin /\ WF_vars(NextJoin)

(***************************************************************************)
(* What the claims speak of                                                *)
(***************************************************************************)
\* the control-planes among the containers, and whether one is a load balancer
ControlPlaneContainers == {n \in containers : IsControlPlane(n)}
HasLoadBalancerContainer == \E n \in containers : IsExternalLoadBalancer(n)

\* the control-plane container of the smallest name
SmallestControlPlane ==
  CHOOSE n \in ControlPlaneContainers :
    \A m \in ControlPlaneContainers : m = n \/ StrLess(NodeName(n), NodeName(m))

\* the kubeadm commands run on a node so far, in order
KubeadmCalls(n) == SelectSeq(calls, LAMBDA e : e.node = n /\ e.op = "kubeadm")
CommandNames(l) == [i \in 1..Len(l) |-> l[i].cmd.cmd]
IsPrefix(a, b) == Len(a) <= Len(b) /\ a = SubSeq(b, 1, Len(a))

\* the calls made on a node, load balancer updates naming it included
CallsOn(n) == {i \in 1..Len(calls) : calls[i].node = n \/ n \in Range(calls[i].backends)}

Preflight == "join phase preflight"
ControlPlanePrepare == "join phase control-plane-prepare all"
KubeletStart == "join phase kubelet-start"
ControlPlaneJoinPhase == "join phase control-plane-join all"

JoinReturned == pc = "returned" /\ call.op = "KubeadmJoin"

(***************************************************************************)
(* C1: Validate returns an error if and only if the cluster has no         *)
(* control-plane node, or more than one control-plane node and no external *)
(* load balancer node; in every other topology it returns no error.        *)
(***************************************************************************)
C1_ValidateFailsIff ==
  (pc = "returned" /\ call.op = "Validate") =>
    ((out.err # "") <=>
       \/ ControlPlaneContainers = {}
       \/ Cardinality(ControlPlaneContainers) > 1 /\ ~HasLoadBalancerContainer)

\* Validate accepts one control-plane with workers, an etcd node and no load balancer
C1_Witness ==
  /\ pc = "returned" /\ call.op = "Validate" /\ out.err = ""
  /\ Cardinality(ControlPlaneContainers) = 1
  /\ ~HasLoadBalancerContainer
  /\ \E n \in containers : IsWorker(n)
  /\ \E n \in containers : IsExternalEtcd(n)

(***************************************************************************)
(* C2: in whatever order discovery lists the containers, "@cp1" selects    *)
(* exactly the control-plane of the smallest name, and                     *)
(* BootstrapControlPlane returns that same node.                           *)
(***************************************************************************)
C2_BootstrapIsSmallestName ==
  (cluster # <<>> /\ ControlPlaneContainers # {}) =>
    /\ SelectNodes(cluster[1], SelCP1) = [nodes |-> <<SmallestControlPlane>>, err |-> ""]
    /\ BootstrapControlPlane(cluster[1]) = SmallestControlPlane
    /\ (call.op = "SelectNodes" /\ call.arg = SelCP1) =>
         (out.nodes = <<SmallestControlPlane>> /\ out.err = "")

\* docker listed three control-planes, the one of the smallest name last
C2_Witness ==
  /\ pc = "discovered"
  /\ Cardinality(ControlPlaneContainers) = 3
  /\ listed[Len(listed)] = SmallestControlPlane
  /\ IsControlPlane(listed[1])
  /\ BootstrapControlPlane(cluster[1]) = SmallestControlPlane

(***************************************************************************)
(* C3: a valid structural selector whose target is absent selects no node  *)
(* and is no error.  As amended: a token that starts with "@" and, lower   *)
(* cased, is not one of @all, @cp*, @cp1, @cpn, @w*, @lb, @etcd is an      *)
(* error and selects no node.                                              *)
(***************************************************************************)
AbsentTarget(sel) ==
  \/ sel = SelEtcd /\ ~\E n \in containers : IsExternalEtcd(n)
  \/ sel = SelLB /\ ~HasLoadBalancerContainer
  \/ sel = SelCP1 /\ ControlPlaneContainers = {}
  \/ sel = SelCPN /\ Cardinality(ControlPlaneContainers) <= 1

C3_AbsentIsEmpty ==
  (pc = "returned" /\ call.op = "SelectNodes" /\ AbsentTarget(call.arg)) =>
    (out.nodes = <<>> /\ out.err = "")

C3_AbsentEmptyUnknownFoldedError ==
  /\ C3_AbsentIsEmpty
  /\ (pc = "returned" /\ call.op = "SelectNodes" /\ HasPrefix(call.arg, Str(<<"@">>))
        /\ ToLower(call.arg) \notin ValidSelectors) =>
       (out.nodes = <<>> /\ out.err = "InvalidNodeSelector")

\* the claim as made: every "@" token that is not one of the seven is an error
C3_AbsentEmptyUnknownError ==
  /\ C3_AbsentIsEmpty
  /\ (pc = "returned" /\ call.op = "SelectNodes" /\ HasPrefix(call.arg, Str(<<"@">>))
        /\ call.arg \notin ValidSelectors) =>
       (out.nodes = <<>> /\ out.err = "InvalidNodeSelector")

\* "@etcd" selected nothing, without error, in a cluster of two control-planes
\* and a load balancer that has no etcd node
C3_Witness ==
  /\ pc = "returned" /\ call.op = "SelectNodes" /\ call.arg = SelEtcd
  /\ out.nodes = <<>> /\ out.err = ""
  /\ Cardinality(ControlPlaneContainers) = 2 /\ HasLoadBalancerContainer

(***************************************************************************)
(* C4: with a kustomize directory given, an eligible secondary             *)
(* control-plane whose kubeadm is older than v1.17 makes the join fail at  *)
(* the version gate, and no call (copy, image check, config, join command, *)
(* load balancer update, wait) has been made for that node.                *)
(***************************************************************************)
C4_KustomizeGateBeforeAnyCall ==
  (opts.kustomizeDir /\ version # 0 /\ version < V1_17) =>
    /\ JoinReturned
    /\ out.err = "KustomizeVersion"
    /\ CallsOn(Head(queue)) = {}

\* the second of two secondary control-planes is turned down at the gate,
\* after the first has joined
C4_Witness ==
  /\ JoinReturned /\ out.err = "KustomizeVersion"
  /\ opts.kustomizeDir /\ version < V1_17
  /\ Len(cpX) = 2
  /\ Head(queue) \notin Range(cpX)
  /\ calls # <<>>

(***************************************************************************)
(* C5: for every staging option asked for, the node's kubeadm version is   *)
(* checked before anything is copied to the node: with both directories    *)
(* given and a version of at least v1.17 and below v1.19, the join is      *)
(* turned down with no copy to that node made.                             *)
(***************************************************************************)
C5_AllGatesBeforeAnyCopy ==
  (JoinReturned /\ out.err \in {"KustomizeVersion", "PatchesVersion"}) =>
    \A i \in CallsOn(Head(queue)) : calls[i].op # "copyPatchesToNode"

(***************************************************************************)
(* C6: after a join run in which every secondary control-plane has joined, *)
(* the backends last applied to the load balancer are all the              *)
(* control-planes of the cluster.  (A cluster with a load balancer and at  *)
(* least one secondary control-plane; none of them held back.)             *)
(***************************************************************************)
C6_BackendsAreAllControlPlanes ==
  (/\ JoinReturned /\ out.err = ""
   /\ Cardinality(ControlPlaneContainers) > 1
   /\ HasLoadBalancerContainer
   /\ skip \cap ControlPlaneContainers = {}) =>
    /\ Range(lbBackends) = ControlPlaneContainers
    /\ lbBackends = ControlPlanes(cluster[1])

\* cp2 and cp3 have joined cp1
C6_Witness ==
  /\ JoinReturned /\ out.err = ""
  /\ Cardinality(ControlPlaneContainers) = 3
  /\ skip = {}
  /\ Range(lbBackends) = ControlPlaneContainers

LastReturned == history[Len(history)]

WorkerContainers == {n \in containers : IsWorker(n)}

C9_NoControlPlanePhaseOnWorker ==
  \A w \in WorkerContainers :
    /\ \A i \in 1..Len(calls) :
         calls[i].node = w => calls[i].cmd.cmd \notin {ControlPlanePrepare, ControlPlaneJoinPhase}
    /\ opts.usePhases =>
         /\ IsPrefix(CommandNames(KubeadmCalls(w)), <<Preflight, KubeletStart>>)
         /\ (\E i \in 1..Len(calls) : calls[i].node = w /\ calls[i].op = "waitNewWorkerNodeReady")
              => CommandNames(KubeadmCalls(w)) = <<Preflight, KubeletStart>>

\* a phased run has joined a control-plane and then a worker
C9_Witness ==
  /\ JoinReturned /\ out.err = "" /\ opts.usePhases
  /\ Len(cpX) = 2
  /\ \E w \in WorkerContainers :
       /\ CommandNames(KubeadmCalls(w)) = <<Preflight, KubeletStart>>
       /\ \E i \in 1..Len(calls) : calls[i].node = w /\ calls[i].op = "waitNewWorkerNodeReady"

(***************************************************************************)
(* C10: a phased control-plane join that succeeds runs exactly preflight,  *)
(* control-plane-prepare all, kubelet-start, control-plane-join all on the *)
(* node, in this order, each once; a phase is run only after the one       *)
(* before returned nil, and nothing is run after a phase that failed.      *)
(***************************************************************************)
FourPhases == <<Preflight, ControlPlanePrepare, KubeletStart, ControlPlaneJoinPhase>>

C10_FourPhasesInOrder ==
  opts.usePhases =>
    /\ \A n \in ControlPlaneContainers :
         /\ IsPrefix(CommandNames(KubeadmCalls(n)), FourPhases)
         /\ \A i \in 1..(Len(KubeadmCalls(n)) - 1) : KubeadmCalls(n)[i].ok
         /\ (n \in Range(Tail(cpX))) =>
              /\ CommandNames(KubeadmCalls(n)) = FourPhases
              /\ \A i \in 1..Len(KubeadmCalls(n)) : KubeadmCalls(n)[i].ok
    /\ \A i \in 1..Len(calls) : (calls[i].op = "kubeadm" /\ ~calls[i].ok) => i = Len(calls)

\* the second phased control-plane join of a run has succeeded
C10_Witness ==
  /\ opts.usePhases
  /\ Len(cpX) = 3
  /\ \A n \in Range(Tail(cpX)) : CommandNames(KubeadmCalls(n)) = FourPhases

(***************************************************************************)
(* C11: when a step of a node's join fails the workflow returns that       *)
(* error, the failed call is the last call of the run, no call at all has  *)
(* been made on the nodes that were still to join in that node's group,    *)
(* and every node that had reached Ready is left as it is: nothing but     *)
(* join steps is ever run, and the control-planes that are Ready stay in   *)
(* the load balancer's backends.                                           *)
(***************************************************************************)
JoinSteps ==
  {"copyPatchesToNode", "copyCertificatesToNode", "KubeVersion", "checkImagesForVersion",
   "KubeadmJoinConfig", "kubeadm", "LoadBalancer", "waitNewControlPlaneNodeReady",
   "waitNewWorkerNodeReady"}

\* the nodes whose readiness wait has returned nil
ReadyNodes ==
  {n \in containers :
     \E i \in 1..Len(calls) :
       /\ calls[i].node = n /\ calls[i].ok
       /\ calls[i].op \in {"waitNewControlPlaneNodeReady", "waitNewWorkerNodeReady"}}

JoinFailed == JoinReturned /\ out.err # ""

C11_FailureStopsGroupKeepsReady ==
  /\ \A i \in 1..Len(calls) :
       /\ calls[i].op \in JoinSteps
       /\ calls[i].op = "kubeadm" =>
            calls[i].cmd.cmd \in {"join", Preflight, ControlPlanePrepare, KubeletStart,
                                  ControlPlaneJoinPhase}
       /\ ~calls[i].ok =>
            /\ i = Len(calls)
            /\ JoinFailed
            /\ out.err = calls[i].op /\ out.node = calls[i].node
            /\ queue # <<>>
            /\ calls[i].node \in {Head(queue), ExternalLoadBalancer(cluster[1])}
  /\ JoinFailed =>
       /\ queue # <<>>
       /\ \A n \in Range(Tail(queue)) : CallsOn(n) = {}
       /\ IsControlPlane(Head(queue)) => \A w \in containers : IsWorker(w) => CallsOn(w) = {}
  /\ \A n \in ReadyNodes :
       IsControlPlane(n) => n \in Range(cpX) /\ n \in Range(lbBackends)

\* cp2 is Ready and behind the load balancer, the join of the first worker
\* has failed and the second worker is left untouched
C11_Witness ==
  /\ JoinFailed
  /\ IsWorker(Head(queue)) /\ Tail(queue) # <<>>
  /\ ~calls[Len(calls)].ok /\ calls[Len(calls)].op = "kubeadm"
  /\ \E n \in ReadyNodes : IsControlPlane(n) /\ n \in Range(lbBackends)

(***************************************************************************)
(* C12: the load balancer update that names a joining control-plane is     *)
(* applied after all the kubeadm commands of its join have returned nil    *)
(* and before its readiness wait starts; the wait is never started for a   *)
(* control-plane unless an update naming it has returned nil.              *)
(***************************************************************************)
\* the kubeadm commands of the node's join have all run before call i, and returned nil
JoinedBefore(n, i) ==
  /\ CommandNames(KubeadmCalls(n)) =
       [k \in 1..Len(ControlPlaneJoinCommands(opts)) |-> ControlPlaneJoinCommands(opts)[k].cmd]
  /\ \A k \in 1..Len(calls) :
       (calls[k].node = n /\ calls[k].op = "kubeadm") => (k < i /\ calls[k].ok)

C12_LoadBalancerBetweenJoinAndWait ==
  \A i \in 1..Len(calls) :
    /\ calls[i].op = "waitNewControlPlaneNodeReady" =>
         /\ i > 1
         /\ calls[i - 1].op = "LoadBalancer" /\ calls[i - 1].ok
         /\ calls[i].node \in Range(calls[i - 1].backends)
         /\ JoinedBefore(calls[i].node, i - 1)
    /\ calls[i].op = "LoadBalancer" =>
         /\ JoinedBefore(calls[i].backends[Len(calls[i].backends)], i)
         /\ \A k \in 1..(i - 1) :
              calls[k].op = "waitNewControlPlaneNodeReady" =>
                calls[k].node # calls[i].backends[Len(calls[i].backends)]
         /\ \A n \in Range(calls[i].backends) :
              n = BootstrapControlPlane(cluster[1]) \/ JoinedBefore(n, i)

\* the wait for cp3 has started, after the update that names cp1, cp2 and cp3
C12_Witness ==
  /\ calls # <<>>
  /\ calls[Len(calls)].op = "waitNewControlPlaneNodeReady"
  /\ Len(lbBackends) = 3
  /\ calls[Len(calls)].node = lbBackends[3]
  /\ HasLoadBalancerContainer

SecondaryControlPlaneContainers == ControlPlaneContainers \ {SmallestControlPlane}

\* the join, the load balancer update and the wait of n returned nil before call i
CompletedBefore(n, i) ==
  \E w \in 1..(i - 1) :
    /\ calls[w].node = n /\ calls[w].op = "waitNewControlPlaneNodeReady" /\ calls[w].ok
    /\ \E u \in 1..(w - 1) :
         /\ calls[u].op = "LoadBalancer" /\ calls[u].ok /\ n \in Range(calls[u].backends)
         /\ JoinedBefore(n, u)

InControlPlaneLoop ==
  pc \in {"cpLoop", "cpKustomize", "cpPatches", "cpCerts", "cpKubeVersion", "cpImages",
          "cpConfig", "cpJoin", "cpLoadBalancer", "cpWait"}

C14_ControlPlanesOneByOneInNameOrder ==
  (cluster # <<>> /\ ControlPlaneContainers # {}) =>
    /\ Cardinality({n \in SecondaryControlPlaneContainers :
                      (\E i \in 1..Len(calls) : calls[i].node = n) /\ n \notin ReadyNodes}) <= 1
    /\ \A j \in 1..Len(calls) :
         calls[j].node \in SecondaryControlPlaneContainers =>
           \A n \in SecondaryControlPlaneContainers \ skip :
             StrLess(NodeName(n), NodeName(calls[j].node)) => CompletedBefore(n, j)
    /\ (InControlPlaneLoop /\ queue # <<>>) =>
         \A n \in SecondaryControlPlaneContainers \ skip :
           IF StrLess(NodeName(n), NodeName(Head(queue)))
           THEN CompletedBefore(n, Len(calls) + 1)
           ELSE n \in Range(queue) /\ (n # Head(queue) => CallsOn(n) = {})

\* cp3's join is under way, cp2 being Ready
C14_Witness ==
  /\ pc = "cpJoin"
  /\ Len(cpX) = 2
  /\ Cardinality(SecondaryControlPlaneContainers) = 2
  /\ skip = {}
  /\ Len(queue) = 1
  /\ cpX[2] \in ReadyNodes
  /\ CallsOn(Head(queue)) # {}

(***************************************************************************)
(* C15: on a cluster that fails Validate (no control-plane, or several     *)
(* control-planes and no load balancer) the join workflow makes no copy,   *)
(* config render, join or load balancer call on any node.                  *)
(***************************************************************************)
C15_NoJoinStepOnInvalidCluster ==
  (call.op = "KubeadmJoin" /\ Validate(cluster[1]) # "") =>
    \A i \in 1..Len(calls) :
      calls[i].op \notin {"copyPatchesToNode", "copyCertificatesToNode", "KubeadmJoinConfig",
                          "kubeadm", "LoadBalancer"}

(***************************************************************************)
(* C16: every error the join workflow returns carries the identity of the  *)
(* node on which the step failed, the version gates included.              *)
(***************************************************************************)
C16_ErrorNamesNode ==
  (JoinFailed /\ HasLoadBalancerContainer) =>
    out.node \in {Head(queue), ExternalLoadBalancer(cluster[1])}

(***************************************************************************)
(* C17: WriteSettings writes the Kubernetes nodes one by one in the order  *)
(* of the list.  If the write to a node fails it returns an error naming   *)
(* that node, the nodes before it hold the new settings and the nodes      *)
(* after it are not written; if none fails every Kubernetes node holds the *)
(* settings.  A load balancer or etcd node is never written.               *)
(***************************************************************************)
\* the Kubernetes nodes by name, computed from the containers
RECURSIVE ByName(_)
ByName(S) ==
  IF S = {} THEN <<>>
  ELSE With(CHOOSE n \in S : \A m \in S : m = n \/ StrLess(NodeName(n), NodeName(m)),
            LAMBDA n : <<n>> \o ByName(S \ {n}))

K8sContainersByName == ByName({n \in containers : IsControlPlane(n) \/ IsWorker(n)})

\* the nodes the running or the last WriteSettings has written
WrittenNodes == SubSeq(K8sContainersByName, 1, Len(K8sContainersByName) - Len(todo))

WriteSettingsProgress ==
  /\ (call.op = "WriteSettings" /\ pc \in {"writeSettings", "returned"}) =>
       /\ Len(todo) <= Len(K8sContainersByName)
       /\ todo = SubSeq(K8sContainersByName, Len(K8sContainersByName) - Len(todo) + 1,
                        Len(K8sContainersByName))
       /\ \A n \in Range(WrittenNodes) : nodeSettings[n] = WriteClusterSettings(call.arg)
       /\ (pc = "returned" /\ out.err # "") => (todo # <<>> /\ out.node = Head(todo))
       /\ (pc = "returned" /\ out.err = "") => todo = <<>>
  /\ \A n \in AllContainers :
       ~(n \in containers /\ (IsControlPlane(n) \/ IsWorker(n))) => nodeSettings[n] = NoFile

\* a step changes the file of the node in turn and of no other node
WriteSettingsStep ==
  \A n \in AllContainers :
    nodeSettings'[n] # nodeSettings[n] =>
      /\ pc = "writeSettings" /\ todo # <<>>
      /\ n = Head(todo)
      /\ todo' = Tail(todo)
      /\ nodeSettings'[n] = WriteClusterSettings(Settings)

C17_WriteSettingsInOrderPartial == [](WriteSettingsProgress) /\ [][WriteSettingsStep]_vars

\* a second WriteSettings has failed at the second node: the first node holds
\* the new settings, the nodes from the second on still hold the old ones
C17_Witness ==
  /\ pc = "returned" /\ call.op = "WriteSettings" /\ out.err # ""
  /\ Len(history) = 2
  /\ history[1].op = "WriteSettings" /\ history[1].err = "" /\ history[1].arg # call.arg
  /\ Len(WrittenNodes) = 1 /\ Len(todo) >= 2
  /\ out.node = todo[1]
  /\ nodeSettings[WrittenNodes[1]] = WriteClusterSettings(call.arg)
  /\ \A n \in Range(todo) : nodeSettings[n] = WriteClusterSettings(history[1].arg)
  /\ nodeSettings[todo[2]] # nodeSettings[WrittenNodes[1]]
  /\ HasLoadBalancerContainer

(***************************************************************************)
(* C18: ReadSettings reads the bootstrap control-plane only: when it       *)
(* returns nil the in-memory settings are what the file of the bootstrap   *)
(* control-plane decodes to, whatever the other nodes hold, and when the   *)
(* read fails the error carries the bootstrap control-plane's name.        *)
(***************************************************************************)
C18_ReadSettingsFromBootstrapOnly ==
  (pc = "returned" /\ call.op = "ReadSettings" /\ ControlPlaneContainers # {}) =>
    IF out.err = ""
    THEN /\ nodeSettings[SmallestControlPlane].exists
         /\ Settings = ReadClusterSettings(nodeSettings[SmallestControlPlane])
    ELSE /\ out.node = SmallestControlPlane
         /\ Settings = <<>>

\* a write of ipv6 reached the bootstrap control-plane and failed on the next
\* node; the read that follows returns ipv6
C18_Witness ==
  /\ pc = "returned" /\ call.op = "ReadSettings" /\ out.err = ""
  /\ Len(history) = 2
  /\ history[1].op = "WriteSettings" /\ history[1].err # ""
  /\ history[1].node # SmallestControlPlane
  /\ Settings = <<[IPFamily |-> IPv6Family]>>
  /\ \E n \in containers :
       (IsControlPlane(n) \/ IsWorker(n)) /\ nodeSettings[n] # nodeSettings[SmallestControlPlane]

(***************************************************************************)
(* C19: a cluster that discovery returns has at most one external etcd     *)
(* node and at most one external load balancer node; with two containers   *)
(* of either role discovery returns an error and no cluster, and at the    *)
(* error the node registered for the role is still the first one listed.   *)
(***************************************************************************)
EtcdContainers == {n \in containers : IsExternalEtcd(n)}
LoadBalancerContainers == {n \in containers : IsExternalLoadBalancer(n)}

\* the first of the listed containers that is in S, Nil if there is none
FirstListed(S) ==
  IF \A i \in 1..Len(listed) : listed[i] \notin S THEN Nil
  ELSE listed[CHOOSE i \in 1..Len(listed) :
                listed[i] \in S /\ \A h \in 1..(i - 1) : listed[h] \notin S]

C19_AtMostOneEtcdAndLoadBalancer ==
  /\ cluster # <<>> =>
       /\ Cardinality(EtcdContainers) <= 1
       /\ Cardinality(LoadBalancerContainers) <= 1
       /\ \A n \in EtcdContainers : ExternalEtcd(cluster[1]) = n
       /\ \A n \in LoadBalancerContainers : ExternalLoadBalancer(cluster[1]) = n
  /\ (pc # "start" /\ (Cardinality(EtcdContainers) > 1 \/ Cardinality(LoadBalancerContainers) > 1)) =>
       /\ pc = "failed"
       /\ cluster = <<>>
       /\ out.err \in {"MoreThanOneExternalEtcd", "MoreThanOneExternalLoadBalancer"}
  /\ pc = "failed" =>
       \E r \in {addAll(EmptyCluster, listed)} :
         /\ r.err = out.err
         /\ r.c.externalEtcd \in {Nil, FirstListed(EtcdContainers)}
         /\ r.c.externalLoadBalancer \in {Nil, FirstListed(LoadBalancerContainers)}
         /\ out.err = "MoreThanOneExternalEtcd" =>
              r.c.externalEtcd = FirstListed(EtcdContainers) /\ r.c.externalEtcd # Nil
         /\ out.err = "MoreThanOneExternalLoadBalancer" =>
              /\ r.c.externalLoadBalancer = FirstListed(LoadBalancerContainers)
              /\ r.c.externalLoadBalancer # Nil

\* docker lists a control-plane and two etcd containers, k-etcd2 before k-etcd
C19_Witness ==
  /\ pc = "failed" /\ cluster = <<>>
  /\ out.err = "MoreThanOneExternalEtcd"
  /\ Cardinality(EtcdContainers) = 2
  /\ ControlPlaneContainers # {}
  /\ NodeName(FirstListed(EtcdContainers)) = Str(<<"k", "-", "e", "t", "c", "d", "2">>)

(***************************************************************************)
(* C20: ResolveNodesPath on a string without ':' returns no nodes, the     *)
(* whole string as path and no error; with one ':' the nodes that          *)
(* SelectNodes gives for the part before it and the part after it as path, *)
(* or the selector's error with no nodes and an empty path; with more than *)
(* one ':' a syntax error with no nodes and an empty path.                 *)
(***************************************************************************)
Colons(s) == {i \in 1..Len(s) : s[i] = Ascii[":"]}

C20_ResolveNodesPathByColons ==
  (pc = "returned" /\ call.op = "ResolveNodesPath") =>
    CASE Cardinality(Colons(call.arg)) = 0 ->
           out.nodes = <<>> /\ out.path = call.arg /\ out.err = ""
      [] Cardinality(Colons(call.arg)) = 1 ->
           \E i \in Colons(call.arg) :
             \E r \in {SelectNodes(cluster[1], SubSeq(call.arg, 1, i - 1))} :
               IF r.err = ""
               THEN /\ out.nodes = r.nodes
                    /\ out.path = SubSeq(call.arg, i + 1, Len(call.arg))
                    /\ out.err = ""
               ELSE out.nodes = <<>> /\ out.path = <<>> /\ out.err = r.err
      [] OTHER ->
           out.nodes = <<>> /\ out.path = <<>> /\ out.err = "InvalidNodesPath"

\* "@cp*:a:b" is turned down though its selector is valid and selects nodes
C20_Witness ==
  /\ pc = "returned" /\ call.op = "ResolveNodesPath"
  /\ Cardinality(Colons(call.arg)) = 2
  /\ HasPrefix(call.arg, SelCPs)
  /\ out.err = "InvalidNodesPath" /\ out.nodes = <<>> /\ out.path = <<>>
  /\ Cardinality(ControlPlaneContainers) = 2

(***************************************************************************)
(* C21: a selector that does not start with "@" selects the node of the    *)
(* cluster whose name is "<cluster>-<selector>" whatever the letter case,  *)
(* whichever node of the cluster bears that name, and never more than one  *)
(* node; if no node bears the name it selects nothing and is no error.     *)
(***************************************************************************)
\* the containers of the cluster that bear the name the selector spells
NamedBy(sel) ==
  {n \in containers : EqualFold(ClusterName \o Str(<<"-">>) \o sel, NodeName(n))}

C21_NameSelectsAnyNode ==
  (pc = "returned" /\ call.op = "SelectNodes" /\ ~HasPrefix(call.arg, Str(<<"@">>))) =>
    /\ out.err = ""
    /\ Len(out.nodes) <= 1
    /\ Range(out.nodes) = NamedBy(call.arg)

\* the same for the names of the control-planes and the workers alone
C21_NameSelectsKubernetesNode ==
  (pc = "returned" /\ call.op = "SelectNodes" /\ ~HasPrefix(call.arg, Str(<<"@">>))) =>
    /\ out.err = ""
    /\ Len(out.nodes) <= 1
    /\ Range(out.nodes) = {n \in NamedBy(call.arg) : IsControlPlane(n) \/ IsWorker(n)}

(***************************************************************************)
(* C22: on the control-plane path the steps of a node run in the order     *)
(* version gate, artifact staging, certificate copy, image check, config   *)
(* render, join, load balancer update, readiness wait; a step starts only  *)
(* after every earlier applicable step returned nil on the node, and       *)
(* nothing follows a step that failed.                                     *)
(***************************************************************************)
\* the place of a call in the order of the steps
StepRank(e) ==
  CASE e.op = "copyPatchesToNode" -> 1
    [] e.op = "copyCertificatesToNode" -> 2
    [] e.op = "KubeVersion" -> 3
    [] e.op = "checkImagesForVersion" -> 4
    [] e.op = "KubeadmJoinConfig" -> 5
    [] e.op = "kubeadm" -> 6
    [] e.op = "LoadBalancer" -> 7
    [] OTHER -> 8

\* the calls of the join of n: those on n and the load balancer update that adds n
StepsOf(n) ==
  SelectSeq(calls, LAMBDA e :
    \/ e.node = n
    \/ e.op = "LoadBalancer" /\ e.backends[Len(e.backends)] = n)

\* the steps the arguments of KubeadmJoin ask for
ApplicableRanks ==
  (IF opts.kustomizeDir \/ opts.patchesDir THEN {1} ELSE {}) \cup
  (IF ~opts.automaticCopyCerts THEN {2} ELSE {}) \cup {3, 4, 5, 6, 7, 8}

ControlPlaneStepsInOrder ==
  (cluster # <<>> /\ ControlPlaneContainers # {}) =>
    \A n \in SecondaryControlPlaneContainers :
      \A j \in 1..Len(StepsOf(n)) :
        /\ StepRank(StepsOf(n)[j]) \in ApplicableRanks
        /\ \A r \in ApplicableRanks :
             r < StepRank(StepsOf(n)[j]) =>
               \E i \in 1..(j - 1) : StepRank(StepsOf(n)[i]) = r
        /\ \A i \in 1..(j - 1) :
             /\ StepsOf(n)[i].ok
             /\ StepRank(StepsOf(n)[i]) <= StepRank(StepsOf(n)[j])
             /\ StepRank(StepsOf(n)[i]) = StepRank(StepsOf(n)[j]) =>
                  StepRank(StepsOf(n)[j]) \in {1, 6}

\* a version gate that turns the node down does so before anything is staged
GateBeforeStaging ==
  (JoinFailed /\ out.err \in {"KustomizeVersion", "PatchesVersion"}) =>
    StepsOf(Head(queue)) = <<>>

C22_ControlPlaneStepsGateFirst == ControlPlaneStepsInOrder /\ GateBeforeStaging

(***************************************************************************)
(* C23: the certificates are copied to a joining secondary control-plane   *)
(* if and only if automaticCopyCerts is false; the copy comes after the    *)
(* staging copies and before the image check, and when it fails the run    *)
(* returns with no config rendered and no kubeadm command run on the node. *)
(***************************************************************************)
CertificateCopies(n) ==
  {i \in 1..Len(StepsOf(n)) : StepsOf(n)[i].op = "copyCertificatesToNode"}

StagingCopies == (IF opts.kustomizeDir THEN 1 ELSE 0) + (IF opts.patchesDir THEN 1 ELSE 0)

C23_CertificatesCopiedIffNotAutomatic ==
  (cluster # <<>> /\ ControlPlaneContainers # {}) =>
    \A n \in SecondaryControlPlaneContainers :
      /\ opts.automaticCopyCerts => CertificateCopies(n) = {}
      /\ (~opts.automaticCopyCerts /\ \E i \in 1..Len(StepsOf(n)) : StepRank(StepsOf(n)[i]) >= 3)
           => Cardinality(CertificateCopies(n)) = 1
      /\ \A i \in CertificateCopies(n) :
           /\ i = StagingCopies + 1
           /\ \A k \in 1..(i - 1) : StepsOf(n)[k].op = "copyPatchesToNode" /\ StepsOf(n)[k].ok
           /\ \A k \in (i + 1)..Len(StepsOf(n)) :
                StepsOf(n)[k].op \notin {"copyPatchesToNode", "copyCertificatesToNode"}
           /\ ~StepsOf(n)[i].ok =>
                /\ i = Len(StepsOf(n))
                /\ JoinFailed /\ out.err = "copyCertificatesToNode" /\ out.node = n
                /\ calls[Len(calls)] = StepsOf(n)[i]

\* the copy of the certificates to cp3 has failed, after both directories
\* were staged on it and cp2 had joined
C23_Witness ==
  /\ JoinFailed /\ out.err = "copyCertificatesToNode"
  /\ opts.kustomizeDir /\ opts.patchesDir /\ ~opts.automaticCopyCerts
  /\ Len(cpX) = 2
  /\ Len(StepsOf(Head(queue))) = 3
  /\ \A w \in containers : IsWorker(w) => CallsOn(w) = {}

(***************************************************************************)
(* C24: an image check that fails on a node, control-plane or worker, is   *)
(* a hard error: the workflow returns it, the check has run once on the    *)
(* node, no config is rendered and no kubeadm command is run on the node,  *)
(* and nothing is run to pull an image.                                    *)
(***************************************************************************)
C24_MissingImageIsHardError ==
  \A i \in 1..Len(calls) :
    /\ calls[i].op \in JoinSteps
    /\ (calls[i].op = "checkImagesForVersion" /\ ~calls[i].ok) =>
         /\ i = Len(calls)
         /\ JoinFailed /\ out.err = "checkImagesForVersion" /\ out.node = calls[i].node
         /\ calls[i].node = Head(queue)
         /\ \A k \in 1..Len(calls) :
              calls[k].node = calls[i].node =>
                /\ calls[k].op \notin {"KubeadmJoinConfig", "kubeadm",
                                       "waitNewControlPlaneNodeReady", "waitNewWorkerNodeReady"}
                /\ calls[k].op = "checkImagesForVersion" => k = i

\* the image check has failed on a worker, after a control-plane has joined
C24_Witness ==
  /\ JoinFailed /\ out.err = "checkImagesForVersion"
  /\ IsWorker(out.node)
  /\ Len(cpX) = 2
  /\ ~calls[Len(calls)].ok

(***************************************************************************)
(* C25: the join of a worker is its image check, the config render, the    *)
(* join (one kubeadm join, or preflight and kubelet-start) and the         *)
(* readiness wait, in this order and nothing else: no staging copy, no     *)
(* certificate copy, no load balancer update; the load balancer's          *)
(* backends never hold a worker and are not changed once the workers are   *)
(* being joined.                                                           *)
(***************************************************************************)
\* what is run on a node, in order: the call, and for kubeadm the command
StepNames(n) ==
  [i \in 1..Len(StepsOf(n)) |->
     IF StepsOf(n)[i].op = "kubeadm" THEN StepsOf(n)[i].cmd.cmd ELSE StepsOf(n)[i].op]

WorkerSteps ==
  <<"KubeVersion", "checkImagesForVersion", "KubeadmJoinConfig">> \o
  (IF opts.usePhases THEN <<Preflight, KubeletStart>> ELSE <<"join">>) \o
  <<"waitNewWorkerNodeReady">>

\* the backends of the last load balancer update that returned nil
LastBackendsApplied ==
  IF \A i \in 1..Len(calls) : ~(calls[i].op = "LoadBalancer" /\ calls[i].ok) THEN <<>>
  ELSE calls[CHOOSE i \in 1..Len(calls) :
               /\ calls[i].op = "LoadBalancer" /\ calls[i].ok
               /\ \A k \in (i + 1)..Len(calls) : ~(calls[k].op = "LoadBalancer" /\ calls[k].ok)
            ].backends

C25_WorkerJoinStepsOnly ==
  /\ \A w \in WorkerContainers :
       /\ IsPrefix(StepNames(w), WorkerSteps)
       /\ w \in ReadyNodes => StepNames(w) = WorkerSteps
       /\ \A i \in 1..(Len(StepsOf(w)) - 1) : StepsOf(w)[i].ok
       /\ w \notin Range(cpX) /\ w \notin Range(lbBackends)
       /\ \A i \in 1..Len(calls) : w \notin Range(calls[i].backends)
  /\ \A i \in 1..Len(calls) :
       calls[i].node \in WorkerContainers =>
         \A k \in (i + 1)..Len(calls) : calls[k].op # "LoadBalancer"
  /\ lbBackends = LastBackendsApplied

\* two workers have joined a cluster of two control-planes; the backends are
\* those of the update made for cp2
C25_Witness ==
  /\ JoinReturned /\ out.err = ""
  /\ Cardinality(WorkerContainers \cap ReadyNodes) = 2
  /\ Len(lbBackends) = 2
  /\ ~opts.usePhases

(***************************************************************************)
(* C26: in a phased control-plane join "-k" is passed to                   *)
(* control-plane-prepare and to control-plane-join exactly when a          *)
(* kustomize directory was given, "--experimental-patches" exactly when a  *)
(* patches directory was given, and neither is ever passed to preflight or *)
(* kubelet-start; the single command of a join without phases takes them   *)
(* under the same conditions.                                              *)
(***************************************************************************)
StagingFlags == {"-k", "--experimental-patches"}

C26_StagingFlagsOnPrepareAndJoinOnly ==
  \A i \in 1..Len(calls) :
    calls[i].op = "kubeadm" =>
      IF IsControlPlane(calls[i].node)
           /\ calls[i].cmd.cmd \in {"join", ControlPlanePrepare, ControlPlaneJoinPhase}
      THEN /\ ("-k" \in calls[i].cmd.flags) <=> opts.kustomizeDir
           /\ ("--experimental-patches" \in calls[i].cmd.flags) <=> opts.patchesDir
      ELSE calls[i].cmd.flags \cap StagingFlags = {}

\* the four phases have run on a control-plane with a patches directory and
\* no kustomize directory
C26_Witness ==
  /\ opts.usePhases /\ opts.patchesDir /\ ~opts.kustomizeDir
  /\ Len(cpX) = 2
  /\ CommandNames(KubeadmCalls(cpX[2])) = FourPhases
  /\ KubeadmCalls(cpX[2])[2].cmd.flags = {"--experimental-patches"}
  /\ KubeadmCalls(cpX[2])[3].cmd.flags = {}

(***************************************************************************)
(* C27: in one run the backends handed to the load balancer only grow:     *)
(* every update's backends start with the bootstrap control-plane, are the *)
(* backends of the update before with exactly one node appended (the       *)
(* bootstrap control-plane and one node for the first update), end with    *)
(* the node that has just joined, and hold every control-plane that has    *)
(* joined so far; no node is removed, repeated or moved.                   *)
(***************************************************************************)
LoadBalancerUpdates == {i \in 1..Len(calls) : calls[i].op = "LoadBalancer"}

\* the backends of the update before update i, the bootstrap control-plane
\* alone if i is the first
BackendsBefore(i) ==
  IF \A k \in LoadBalancerUpdates : k >= i THEN <<SmallestControlPlane>>
  ELSE calls[CHOOSE k \in LoadBalancerUpdates :
               k < i /\ \A h \in LoadBalancerUpdates : h < i => h <= k].backends

\* the control-planes whose kubeadm commands have all returned nil before call i
JoinedControlPlanes(i) ==
  {n \in SecondaryControlPlaneContainers :
     /\ \E k \in 1..(i - 1) : calls[k].node = n /\ calls[k].op = "kubeadm"
     /\ JoinedBefore(n, i)}

C27_BackendsGrowByOne ==
  (cluster # <<>> /\ ControlPlaneContainers # {}) =>
    /\ \A i \in LoadBalancerUpdates :
         /\ calls[i].backends[1] = SmallestControlPlane
         /\ Len(calls[i].backends) = Len(BackendsBefore(i)) + 1
         /\ SubSeq(calls[i].backends, 1, Len(BackendsBefore(i))) = BackendsBefore(i)
         /\ Cardinality(Range(calls[i].backends)) = Len(calls[i].backends)
         /\ calls[i].backends[Len(calls[i].backends)] = calls[i - 1].node
         /\ calls[i - 1].op = "kubeadm" /\ calls[i - 1].ok
         /\ Range(calls[i].backends) = {SmallestControlPlane} \cup JoinedControlPlanes(i)
         /\ \A k \in LoadBalancerUpdates : k < i => calls[k].ok
    /\ (call.op = "KubeadmJoin" /\ pc # "cpLoadBalancer") =>
         cpX = BackendsBefore(Len(calls) + 1)

\* the update made for cp3 adds it to the backends of the update made for cp2
C27_Witness ==
  /\ Cardinality(LoadBalancerUpdates) = 2
  /\ Len(cpX) = 3
  /\ calls[Len(calls)].op = "LoadBalancer"
  /\ BackendsBefore(Len(calls)) = SubSeq(cpX, 1, 2)
  /\ HasLoadBalancerContainer

(***************************************************************************)
(* C28: nothing is retried: in one run each step (each copy, the image     *)
(* check, the config render, each kubeadm command, the load balancer       *)
(* update for a node, the readiness wait) is run at most once for a node,  *)
(* and once a step has failed no call is made any more.                    *)
(***************************************************************************)
\* what tells one step from another: the node, the call, the directory or
\* the kubeadm command, and for a load balancer update its backends
StepKey(e) == <<e.node, e.op, e.cmd.cmd, e.backends>>

C28_EachStepAtMostOnce ==
  /\ \A i \in 1..Len(calls) :
       \A j \in (i + 1)..Len(calls) : StepKey(calls[i]) # StepKey(calls[j])
  /\ \A i \in 1..Len(calls) :
       ~calls[i].ok => (i = Len(calls) /\ pc = "returned")

\* the readiness wait of a control-plane has timed out, every step before it
\* having run once
C28_Witness ==
  /\ JoinFailed /\ out.err = "waitNewControlPlaneNodeReady"
  /\ opts.kustomizeDir /\ opts.patchesDir /\ ~opts.automaticCopyCerts /\ opts.usePhases
  /\ Len(StepsOf(Head(queue))) = 12
  /\ ~calls[Len(calls)].ok

(***************************************************************************)
(* C29: the bootstrap control-plane, the first of the sorted list, is      *)
(* never joined: it is never in turn for the version gate, no call is made *)
(* on it and no load balancer update is made for it; with one              *)
(* control-plane the control-plane part of the run makes no call at all,   *)
(* and no load balancer update.                                            *)
(***************************************************************************)
C29_BootstrapNeverJoined ==
  (cluster # <<>> /\ ControlPlaneContainers # {}) =>
    /\ BootstrapControlPlane(cluster[1]) = SmallestControlPlane
    /\ StepsOf(SmallestControlPlane) = <<>>
    /\ SmallestControlPlane \notin Range(queue)
    /\ SmallestControlPlane \notin skip
    /\ Cardinality(ControlPlaneContainers) = 1 =>
         /\ \A i \in 1..Len(calls) : calls[i].node \in WorkerContainers
         /\ LoadBalancerUpdates = {}
         /\ lbBackends = <<>> /\ lbConfig = <<>>
         /\ InControlPlaneLoop => (pc = "cpLoop" /\ queue = <<>> /\ calls = <<>>)

\* a run on one control-plane, a load balancer and two workers has returned
\* nil: the workers have joined, nothing else was done
C29_Witness ==
  /\ JoinReturned /\ out.err = ""
  /\ Cardinality(ControlPlaneContainers) = 1
  /\ HasLoadBalancerContainer
  /\ Cardinality(WorkerContainers \cap ReadyNodes) = 2
  /\ cpX = <<SmallestControlPlane>>

(***************************************************************************)
(* C30: the workers are joined only once the control-plane part has        *)
(* returned nil: no call is made on a worker before every eligible         *)
(* secondary control-plane is Ready, and when the join of a control-plane  *)
(* fails no call has been made on any worker.                              *)
(***************************************************************************)
InWorkerLoop == pc \in {"wLoop", "wImages", "wConfig", "wJoin", "wWait"}

C30_WorkersAfterControlPlanes ==
  (cluster # <<>> /\ ControlPlaneContainers # {}) =>
    /\ \A j \in 1..Len(calls) :
         calls[j].node \in WorkerContainers =>
           \A n \in SecondaryControlPlaneContainers \ skip : CompletedBefore(n, j)
    /\ InWorkerLoop => \A n \in SecondaryControlPlaneContainers \ skip : n \in ReadyNodes
    /\ (JoinFailed /\ queue # <<>> /\ IsControlPlane(Head(queue))) =>
         \A w \in WorkerContainers : StepsOf(w) = <<>> /\ w \notin ReadyNodes

\* the join of cp3 has failed, cp2 being Ready: the worker is left untouched
C30_Witness ==
  /\ JoinFailed
  /\ Cardinality(ControlPlaneContainers) = 3 /\ HasLoadBalancerContainer
  /\ WorkerContainers # {} /\ WorkerContainers \cap skip = {}
  /\ IsControlPlane(Head(queue))
  /\ Len(cpX) = 2 /\ cpX[2] \in ReadyNodes
  /\ calls[Len(calls)].op = "kubeadm"

(***************************************************************************)
(* C31: the join workflow terminates, and if every call it made returned   *)
(* nil it returns nil with every eligible secondary control-plane and      *)
(* every eligible worker Ready, each joined exactly once.  As amended: if  *)
(* every call returned nil and no version gate turned a node down.         *)
(***************************************************************************)
AllCallsSucceeded == \A i \in 1..Len(calls) : calls[i].ok

\* the steps of a control-plane join, for the arguments of KubeadmJoin
ControlPlaneSteps ==
  (IF opts.kustomizeDir THEN <<"copyPatchesToNode">> ELSE <<>>) \o
  (IF opts.patchesDir THEN <<"copyPatchesToNode">> ELSE <<>>) \o
  (IF opts.automaticCopyCerts THEN <<>> ELSE <<"copyCertificatesToNode">>) \o
  <<"KubeVersion", "checkImagesForVersion", "KubeadmJoinConfig">> \o
  (IF opts.usePhases THEN FourPhases ELSE <<"join">>) \o
  <<"LoadBalancer", "waitNewControlPlaneNodeReady">>

\* every node that is eligible is Ready, each step of its join run once
AllEligibleJoinedOnce ==
  /\ out.err = ""
  /\ \A w \in WorkerContainers \ skip : w \in ReadyNodes /\ StepNames(w) = WorkerSteps
  /\ ControlPlaneContainers # {} =>
       \A n \in SecondaryControlPlaneContainers \ skip :
         n \in ReadyNodes /\ StepNames(n) = ControlPlaneSteps
  /\ ReadyNodes \cap skip = {}

VersionGateError == out.err \in {"KustomizeVersion", "PatchesVersion"}

JoinSucceedsUnlessGate ==
  (JoinReturned /\ AllCallsSucceeded /\ ~VersionGateError) => AllEligibleJoinedOnce

C31_TerminatesAllJoinedUnlessGate == <>JoinReturned /\ []JoinSucceedsUnlessGate

\* the claim as made: the calls that returned nil are enough
C31_AllCallsSucceededAllJoined ==
  (JoinReturned /\ AllCallsSucceeded) => AllEligibleJoinedOnce

\* both directories given: cp2 and two workers have joined a cluster of two
\* control-planes and a load balancer, and the run has returned nil
C31_Witness ==
  /\ JoinReturned /\ out.err = "" /\ AllCallsSucceeded
  /\ opts.kustomizeDir /\ opts.patchesDir
  /\ skip = {}
  /\ Cardinality(ControlPlaneContainers) = 2 /\ HasLoadBalancerContainer
  /\ Cardinality(WorkerContainers) = 2
  /\ StepNames(cpX[2]) = ControlPlaneSteps

(***************************************************************************)
(* C32: on every discovered cluster the structural selectors agree: "@cp1" *)
(* and "@cpn" select disjoint nodes and, one after the other, the nodes of *)
(* "@cp*"; "@all" selects exactly the nodes of "@cp*" and of "@w*", never  *)
(* the load balancer or the etcd node; and the letter case of a structural *)
(* selector does not matter ("@CP1" selects what "@cp1" selects).          *)
(***************************************************************************)
Selected(sel) == SelectNodes(cluster[1], sel)

C32_StructuralSelectorsAgree ==
  cluster # <<>> =>
    /\ \A sel \in ValidSelectors : Selected(sel).err = ""
    /\ Selected(SelCP1).nodes \o Selected(SelCPN).nodes = Selected(SelCPs).nodes
    /\ Range(Selected(SelCP1).nodes) \cap Range(Selected(SelCPN).nodes) = {}
    /\ Range(Selected(SelCPs).nodes) = ControlPlaneContainers
    /\ Range(Selected(SelAll).nodes) =
         Range(Selected(SelCPs).nodes) \cup Range(Selected(SelWorkers).nodes)
    /\ Cardinality(Range(Selected(SelAll).nodes)) = Len(Selected(SelAll).nodes)
    /\ \A n \in Range(Selected(SelAll).nodes) :
         ~IsExternalLoadBalancer(n) /\ ~IsExternalEtcd(n)
    /\ Selected(Str(<<"@", "C", "P", "1">>)) = Selected(SelCP1)
    /\ Selected(Str(<<"@", "A", "L", "L">>)) = Selected(SelAll)
    /\ Selected(Str(<<"@", "E", "t", "c", "d">>)) = Selected(SelEtcd)
    /\ Selected(Str(<<"@", "L", "b">>)) = Selected(SelLB)
    /\ (pc = "returned" /\ call.op = "SelectNodes" /\ HasPrefix(call.arg, Str(<<"@">>))) =>
         [nodes |-> out.nodes, err |-> out.err] = Selected(ToLower(call.arg))

\* "@CP1" has selected k-cp1 in a cluster of two control-planes, a worker, a
\* load balancer and an etcd node
C32_Witness ==
  /\ pc = "returned" /\ call.op = "SelectNodes" /\ call.arg = Str(<<"@", "C", "P", "1">>)
  /\ Cardinality(ControlPlaneContainers) = 2
  /\ out.nodes = <<SmallestControlPlane>> /\ out.err = ""
  /\ HasLoadBalancerContainer
  /\ EtcdContainers # {}
  /\ WorkerContainers # {}

(***************************************************************************)
(* C33: a ReadSettings that fails leaves Settings as it was before the     *)
(* call.  As amended: a ReadSettings that fails leaves in Settings what    *)
(* the read of the node returned with its error, nil, whatever Settings    *)
(* held before the call; the file of the node is left as it is.            *)
(***************************************************************************)
ReadSettingsHasFailed ==
  /\ pc = "returned" /\ history # <<>>
  /\ LastReturned.op = "ReadSettings" /\ LastReturned.err # ""

\* Settings when the last command was called
SettingsBefore == IF Len(history) >= 2 THEN history[Len(history) - 1].settings ELSE <<>>

====
